---- MODULE Spec2Model ----
(***************************************************************************)
(* Connection monitor: the server-side client registry, liveness sweep,    *)
(* relay bus and alert path (src/src/server/publisher.ts, class            *)
(* PublisherService) and the agent-side reconnection logic                 *)
(* (src/unnamed/part_007, class SocketClient).                             *)
(*                                                                         *)
(* Time is counted in minutes (one unit = 60000 ms): the sweep interval    *)
(* 60000 ms is 1, the offline threshold and the alert interval             *)
(* 5 * 60 * 1000 ms are 5.  Reconnect delays are kept in milliseconds.     *)
(***************************************************************************)
EXTENDS Integers, Sequences, FiniteSets, TLC

\* ------------------------------------------------------------------ bounds
MaxTime     == 7       \* the clock stops here
MaxBus      == 1       \* StatusEvents in flight on the relay bus
MaxSessions == 2       \* simultaneous transport sessions of one agent
MaxFailures == 7       \* the count of consecutive failures saturates here
MaxProbe    == 14      \* largest attempt number the delay is computed for
MaxStamp    == 3       \* largest timestamp of a StatusEvent from the bus
MaxFaultTime == 3      \* the clock stops here while sink and store can fail
MaxMetricsBus == 2     \* metrics messages in flight on the relay bus

Agents  == {"a1"}                  \* agent identifiers
Metas   == {"P/L", "Q/M"}          \* metadata values (projectName/location)
AgentMeta(a) == "P/L"              \* the metadata an agent is configured with
SampleValues ==                    \* what the metrics snapshots hold
    [calm       |-> [cpuUsage |-> 10, memoryUsage |-> 50, totalMemory |-> 100],
     highCpu    |-> [cpuUsage |-> 81, memoryUsage |-> 50, totalMemory |-> 100],
     highMemory |-> [cpuUsage |-> 10, memoryUsage |-> 91, totalMemory |-> 100]]
Samples == DOMAIN SampleValues     \* metrics snapshots
Absent  == "absent"                \* an optional field that is not set
NoIds   == {Absent, ""}            \* handshake clientIds that are falsy

\* ------------------------------------------------------- program constants
CHECK_INTERVAL    == 1             \* 60000 ms
OFFLINE_THRESHOLD == 5             \* 5 * 60 * 1000 ms
ALERT_INTERVAL    == 5             \* 5 * 60 * 1000 ms
CPU_THRESHOLD     == 80            \* percent
MEMORY_THRESHOLD  == 90            \* percent
REPORT_INTERVAL   == 5             \* 300000 ms
CalmSamples ==                     \* the snapshots below both thresholds
    {x \in Samples :
        /\ SampleValues[x].cpuUsage <= CPU_THRESHOLD
        /\ SampleValues[x].memoryUsage * 100
               <= MEMORY_THRESHOLD * SampleValues[x].totalMemory}
Epoch == 0 - REPORT_INTERVAL - 1   \* (lastReport || 0): long before the start
MaxWaiting == 2                    \* handlers suspended at the same time
MaxOverlapTime == 3                \* minutes of overlapping handlers
MaxRegistryTime == 1               \* minutes of registry operations
MAX_RECONNECT_ATTEMPTS == 5
RECONNECT_INTERVAL     == 5000     \* ms
MAX_RECONNECT_INTERVAL == 30000    \* ms

VARIABLES
    now,              \* Date.now(), in minutes
    sweepDue,         \* the setInterval callback of the sweep is due
    connected,        \* PublisherService.connected (relay transport up)
    connectedClients, \* PublisherService.connectedClients (a Map)
    lastAlertTimes,   \* PublisherService.lastAlertTimes (a Map)
    database,         \* latest row of table connections, per client_id
    sessions,         \* live transport sessions (sockets) per agent
    bus,              \* StatusEvents published and not yet delivered
    lastBeat,         \* history: time of the last liveness signal received
    regular,          \* history: the agent has held a session without a
                      \*          break and has signalled in every minute of it
    out,              \* effects of the handler that ran last
    \* ---- agent side: SocketClient
    socket,            \* this.socket and the state of its connection
    mgrAttempts,       \* reconnection attempts made by the transport library
    reconnectAttempts, \* SocketClient.reconnectAttempts
    isReconnecting,    \* SocketClient.isReconnecting
    timerPending,      \* reconnectTimer is armed and has not fired
    timerDelay,        \* delay (ms) the reconnectTimer was last armed with
    failures,          \* history: consecutive failed connection attempts
    cout,              \* effects of the agent-side handler that ran last
    \* ---- the server's surroundings
    phase,             \* life cycle of the server process
    sinkUp,            \* the notification sink (Telegram) can be reached
    storeUp,           \* the durable store answers queries
    mbus,              \* metrics messages published and not yet delivered
    newest,            \* history: per agent, the greatest timestamp among the
                       \*          StatusEvents received and the statuses
                       \*          carried with it
    lastCycle,         \* history: how the last two sweep cycles went
    \* ---- the reconnect delay as a function of the attempt number
    probeN,            \* attempt number the delay is computed for next
    probeDelays,       \* the delays computed so far
    \* ---- handlers suspended on an await
    statusWait,        \* handleConnectionStatus calls waiting for the store
                       \* or the sink to answer
    cycleWait,         \* sweep cycles waiting inside handleClientOffline
    arrived,           \* history: per agent, the status of the StatusEvent
                       \*          that was handed to its handler last
    lostAlerts,        \* history: per agent, the times at which a
                       \*          connection_lost alert went to the sink
    reports,           \* history: per agent, the times at which the last
                       \*          two SYSTEM_HEALTH_REPORT alerts were
                       \*          published (Epoch: none yet)
    remote             \* history: per agent, its session with another
                       \*          server process on the same relay bus

serverVars == <<now, sweepDue, connected, connectedClients, lastAlertTimes,
                database, sessions, bus, lastBeat, regular, out>>

clientVars == <<socket, mgrAttempts, reconnectAttempts, isReconnecting,
                timerPending, timerDelay, failures, cout>>

probeVars == <<probeN, probeDelays>>

serverVars_but_out == <<now, sweepDue, connected, connectedClients,
                        lastAlertTimes, database, sessions, bus, lastBeat,
                        regular>>

envVars == <<phase, sinkUp, storeUp, mbus, newest, lastCycle>>

asyncVars == <<statusWait, cycleWait, arrived, lostAlerts>>

histVars == <<reports, remote>>

vars == <<serverVars, clientVars, probeVars, envVars, asyncVars, histVars>>

\* --------------------------------------------------------------- helpers
Put(map, k, v) == [x \in DOMAIN map \cup {k} |-> IF x = k THEN v ELSE map[x]]

NoOut(op) == [op |-> op, agent |-> Absent, err |-> "none", sink |-> <<>>,
              dbw |-> <<>>, pub |-> <<>>, emit |-> <<>>, alerted |-> <<>>,
              closed |-> FALSE, attached |-> FALSE, logged |-> <<>>,
              thrown |-> FALSE, http |-> 0,
              request |-> [projectName |-> Absent, location |-> Absent]]

Msg(kind, client, severity) ==
    [kind |-> kind, client |-> client, severity |-> severity]


\* ------------------------------------------------- durable record store
\* DatabaseService.recordConnectionStatus: INSERT of one row stamped with
\* Date.now(); the table is kept as its latest row per client_id.
\* When the INSERT fails (ok = FALSE) the error is logged and swallowed,
\* lines 76-78.
recordConnectionStatus(db, clientId, status, reason, ok) ==
    IF ok
    THEN Put(db, clientId, [client_id |-> clientId, status |-> status,
                            disconnect_reason |-> reason, last_seen |-> now])
    ELSE db

RECURSIVE SetToSeq(_)
SetToSeq(S) ==
    IF S = {} THEN <<>>
    ELSE LET x == CHOOSE y \in S : TRUE IN <<x>> \o SetToSeq(S \ {x})

\* DatabaseService.getRegisteredClients: the clients seen in the recent
\* window, each with its last-seen time.  A query that fails is logged and
\* answered with no rows.
getRegisteredClients(db) ==
    IF storeUp
    THEN [rows |-> SetToSeq({db[c] : c \in DOMAIN db}), logged |-> <<>>]
    ELSE [rows |-> <<>>, logged |-> <<"Error getting registered clients">>]

\* DatabaseService.getOfflineClients: the clients whose latest row is
\* offline.  A query that fails is logged and answered with no rows.
getOfflineClients(db) ==
    IF storeUp
    THEN [rows |-> SetToSeq({db[c] : c \in {x \in DOMAIN db :
                                               db[x].status = "offline"}}),
          logged |-> <<>>]
    ELSE [rows |-> <<>>, logged |-> <<"Error getting offline clients">>]

\* ------------------------------------------------------ notification sink
\* The effects of one call: the messages handed to the Telegram API, what
\* was logged, and whether an error escaped to the caller.
\* A sendAlert that lets the error of the Telegram call escape.
telegramSendAlertThrows(msg) ==
    [calls |-> <<msg>>, logged |-> <<>>, thrown |-> ~sinkUp]

\* TelegramService.sendAlert, lines 107-121.
telegramSendAlert(msg) ==
    [calls |-> <<msg>>,
     logged |-> IF sinkUp THEN <<>> ELSE <<"Failed to send Telegram alert">>,
     thrown |-> FALSE]

\* TelegramService.sendKhmerDesktopDownAlert, lines 181-208: the message to
\* the client chat, then the note that it was sent.
sendKhmerDesktopDownAlert(id) ==
    IF sinkUp
    THEN LET s == telegramSendAlert(Msg("desktop_down_sent", id, "error"))
         IN  [calls |-> <<Msg("khmer_desktop_down", id, "client_chat")>>
                        \o s.calls,
              logged |-> s.logged, thrown |-> s.thrown]
    ELSE [calls |-> <<Msg("khmer_desktop_down", id, "client_chat")>>,
          logged |-> <<"Failed to send Khmer desktop down alert">>,
          thrown |-> FALSE]

\* ------------------------------------------------------- client registry
\* registerClient, line 573: the record stored for a connecting client.
registerRecord(metadata) ==
    [id |-> Absent, lastHeartbeat |-> now, status |-> "online",
     metadata |-> metadata, metrics |-> Absent, lastReport |-> Epoch]

\* A heartbeat handler that also revives the record.
heartbeatRecordRevives(client, metadata) ==
    [client EXCEPT !.lastHeartbeat = now, !.metadata = metadata,
                   !.status = "online"]

\* heartbeat handler, lines 533-538.
heartbeatRecord(client, metadata) ==
    [client EXCEPT !.lastHeartbeat = now, !.metadata = metadata]

\* metrics handler, lines 547-553.
metricsRecord(client, metrics, metadata) ==
    [client EXCEPT !.lastHeartbeat = now, !.metrics = metrics,
                   !.metadata = metadata]

\* handleConnectionStatus, lines 778-782: record stored for an online event.
onlineEventRecord(status) ==
    [id |-> Absent, lastHeartbeat |-> now, status |-> "online",
     metadata |-> status.metadata, metrics |-> Absent, lastReport |-> Epoch]

\* A record that takes over the status carried by the event.
offlineEventRecordCopiesStatus(clients, status) ==
    IF status.clientId \in DOMAIN clients
    THEN [clients[status.clientId] EXCEPT !.lastHeartbeat = status.timestamp,
                                          !.status = status.status]
    ELSE [id |-> Absent, lastHeartbeat |-> status.timestamp,
          status |-> status.status, metadata |-> Absent, metrics |-> Absent,
          lastReport |-> Epoch]

\* handleConnectionStatus, lines 831-835: {...client, lastHeartbeat, status}.
offlineEventRecord(clients, status) ==
    IF status.clientId \in DOMAIN clients
    THEN [clients[status.clientId] EXCEPT !.lastHeartbeat = status.timestamp,
                                          !.status = "offline"]
    ELSE [id |-> Absent, lastHeartbeat |-> status.timestamp,
          status |-> "offline", metadata |-> Absent, metrics |-> Absent,
          lastReport |-> Epoch]

StatusEvent(clientId, status, metadata, reason) ==
    [clientId |-> clientId, status |-> status, timestamp |-> now,
     metadata |-> metadata, reason |-> reason]

activeClients(clients) == {c \in DOMAIN clients : clients[c].status = "online"}


\* ------------------------------------------------------------- relay bus
\* The effects of one publish call: the error thrown, the StatusEvents put
\* on the bus, what went to the channels, the sink and the live viewers.
\* queued is what the call leaves in flight to the subscribers.
NotConnected == "NotConnected"

\* A publishConnectionStatus that publishes on the metrics channel.
publishConnectionStatusWrongChannel(status) ==
    IF ~connected
    THEN [err |-> NotConnected, queued |-> <<>>, pub |-> <<>>,
          sink |-> <<>>, emit |-> <<>>]
    ELSE [err |-> "none", queued |-> <<>>,
          pub |-> <<[channel |-> "system:metrics", data |-> status]>>,
          sink |-> <<>>, emit |-> <<>>]

publishConnectionStatus(status) ==
    IF ~connected
    THEN [err |-> NotConnected, queued |-> <<>>, pub |-> <<>>,
          sink |-> <<>>, emit |-> <<>>]
    ELSE [err |-> "none", queued |-> <<status>>,
          pub |-> <<[channel |-> "connection:status", data |-> status]>>,
          sink |-> <<>>, emit |-> <<>>]

publishSystemMetrics(metrics) ==
    IF ~connected
    THEN [err |-> NotConnected, queued |-> <<>>, pub |-> <<>>,
          sink |-> <<>>, emit |-> <<>>]
    ELSE [err |-> "none", queued |-> <<metrics>>,
          pub |-> <<[channel |-> "system:metrics", data |-> metrics]>>,
          sink |-> <<>>, emit |-> <<>>]

\* A publishAlert that calls the sink before it looks at the transport.
publishAlertSinkFirst(alert) ==
    IF ~connected
    THEN [err |-> NotConnected, queued |-> <<>>, pub |-> <<>>,
          sink |-> <<Msg(alert.type, alert.clientId, alert.severity)>>,
          emit |-> <<>>, logged |-> <<>>]
    ELSE [err |-> "none", queued |-> <<>>,
          pub |-> <<[channel |-> "system:alerts", data |-> alert]>>,
          sink |-> <<Msg(alert.type, alert.clientId, alert.severity)>>,
          emit |-> <<alert>>, logged |-> <<>>]

\* A publishAlert that gives up when the sink cannot be reached.
publishAlertSinkRequired(alert) ==
    IF ~connected
    THEN [err |-> NotConnected, queued |-> <<>>, pub |-> <<>>,
          sink |-> <<>>, emit |-> <<>>, logged |-> <<>>]
    ELSE [err |-> IF sinkUp THEN "none" ELSE "SinkError", queued |-> <<>>,
          pub |-> <<[channel |-> "system:alerts", data |-> alert]>>,
          sink |-> <<Msg(alert.type, alert.clientId, alert.severity)>>,
          emit |-> IF sinkUp THEN <<alert>> ELSE <<>>, logged |-> <<>>]

\* publishAlert, lines 976-1004: the transport check, the publish on the
\* alerts channel, the sink, the emit to the live viewers.  An error thrown
\* on the way is logged and thrown on, lines 1000-1003.
publishAlert(alert) ==
    LET s == telegramSendAlert(Msg(alert.type, alert.clientId, alert.severity))
    IN  IF ~connected
        THEN [err |-> NotConnected, queued |-> <<>>, pub |-> <<>>,
              sink |-> <<>>, emit |-> <<>>, logged |-> <<>>]
        ELSE [err |-> IF s.thrown THEN "SinkError" ELSE "none",
              queued |-> <<>>,
              pub |-> <<[channel |-> "system:alerts", data |-> alert]>>,
              sink |-> s.calls,
              emit |-> IF s.thrown THEN <<>> ELSE <<alert>>,
              logged |-> s.logged]

\* -------------------------------------------------------- liveness sweep
\* A suppression window that is one minute short.
alertDueShortWindow(lat, id) ==
    \/ id \notin DOMAIN lat
    \/ now - lat[id] >= ALERT_INTERVAL - 1

\* handleClientOffline, lines 667-672: no alert for the client yet, or the
\* last one is at least ALERT_INTERVAL old.
alertDue(lat, id) ==
    \/ id \notin DOMAIN lat
    \/ now - lat[id] >= ALERT_INTERVAL

\* handleClientOffline, lines 660-709.  st carries what the sweep cycle has
\* changed so far: the store, the suppression map, and the cycle's effects.
handleClientOffline(st, client, dbOk) ==
    LET id == client.client_id
        fresh == /\ id \in DOMAIN connectedClients
                 /\ connectedClients[id].status = "online"
                 /\ now - connectedClients[id].lastHeartbeat < OFFLINE_THRESHOLD
        s1 == telegramSendAlert(Msg("connection_lost", id, "warning"))
        s2 == sendKhmerDesktopDownAlert(id)
        warned == [st EXCEPT
                     !.db = recordConnectionStatus(@, id, "offline",
                                                   "connection_lost", dbOk),
                     !.dbw = Append(@, [client_id |-> id, status |-> "offline",
                                        reason |-> "connection_lost"]),
                     !.sink = @ \o s1.calls,
                     !.logged = @ \o s1.logged,
                     !.thrown = s1.thrown]
    IN  IF fresh THEN st
        ELSE IF alertDue(st.lat, id)
        THEN IF warned.thrown THEN warned
             ELSE [warned EXCEPT
                     !.sink = @ \o s2.calls,
                     !.logged = @ \o s2.logged,
                     !.thrown = s2.thrown,
                     !.lat = Put(@, id, now),
                     !.alerted = Append(@, id)]
        ELSE st

\* startClientMonitoring, lines 613-628: the loop over the registered rows.
RECURSIVE checkRegistered(_, _, _)
checkRegistered(st, rows, dbOk) ==
    IF rows = <<>> \/ st.thrown THEN st
    ELSE LET row == Head(rows)
             clientId == row.client_id
             isConnected ==
                 \E c \in activeClients(connectedClients) :
                     connectedClients[c].id = clientId
             timeSinceLastSeen == now - row.last_seen
             stale ==
                 \/ clientId \notin DOMAIN connectedClients
                 \/ connectedClients[clientId].status # "online"
                 \/ now - connectedClients[clientId].lastHeartbeat
                        > OFFLINE_THRESHOLD
             st2 == IF ~isConnected /\ timeSinceLastSeen > OFFLINE_THRESHOLD
                       /\ stale
                    THEN handleClientOffline(st, row, dbOk) ELSE st
         IN  checkRegistered(st2, Tail(rows), dbOk)

\* startClientMonitoring, lines 630-635: the loop over the offline rows.
RECURSIVE checkOffline(_, _, _)
checkOffline(st, rows, dbOk) ==
    IF rows = <<>> \/ st.thrown THEN st
    ELSE LET client == Head(rows)
             timeSinceLastSeen == now - client.last_seen
             st2 == IF timeSinceLastSeen > OFFLINE_THRESHOLD
                    THEN handleClientOffline(st, client, dbOk) ELSE st
         IN  checkOffline(st2, Tail(rows), dbOk)

\* A fleet-wide check that keeps quiet while a per-agent suppression entry
\* is younger than the suppression window.
noActiveCheckSuppressed(st) ==
    IF /\ ~st.thrown
       /\ activeClients(connectedClients) = {}
       /\ \A id \in DOMAIN st.lat : now - st.lat[id] >= ALERT_INTERVAL
    THEN [st EXCEPT !.sink = Append(@, Msg("no_active_clients", Absent,
                                           "warning"))]
    ELSE st

\* startClientMonitoring, lines 637-647: the warning when no registry entry
\* is online.
noActiveCheck(st) ==
    LET s == telegramSendAlert(Msg("no_active_clients", Absent, "warning"))
    IN  IF ~st.thrown /\ activeClients(connectedClients) = {}
        THEN [st EXCEPT !.sink = @ \o s.calls,
                        !.logged = @ \o s.logged,
                        !.thrown = s.thrown]
        ELSE st

\* startClientMonitoring, lines 600-655: one cycle of the sweep.  An error
\* that escapes a call ends the cycle in the catch of line 649.
sweepCycle(dbOk) ==
    LET registered == getRegisteredClients(database)
        offline == getOfflineClients(database)
        st0 == [db |-> database, lat |-> lastAlertTimes, sink |-> <<>>,
                dbw |-> <<>>, alerted |-> <<>>,
                logged |-> registered.logged \o offline.logged,
                thrown |-> FALSE]
        st1 == checkRegistered(st0, registered.rows, dbOk)
        st2 == checkOffline(st1, offline.rows, dbOk)
        st3 == noActiveCheck(st2)
    IN  IF st3.thrown
        THEN [st3 EXCEPT !.logged = Append(@, "Error in client monitoring")]
        ELSE st3


\* ------------------------------------------- StatusEvents from the bus
\* A handler that drops the registry entry of an agent that went offline.
handleConnectionStatusForgets(status, dbOk) ==
    LET id == status.clientId
    IN  [clients |-> IF status.status = "online"
                     THEN Put(connectedClients, id, onlineEventRecord(status))
                     ELSE [x \in DOMAIN connectedClients \ {id} |->
                               connectedClients[x]],
         db |-> database, sink |-> <<>>, dbw |-> <<>>]

\* handleConnectionStatus, lines 772-848.
handleConnectionStatus(status, dbOk) ==
    LET id == status.clientId
        known == id \in DOMAIN connectedClients
        wasOnline == known /\ connectedClients[id].status = "online"
    IN  IF status.status = "online"
        THEN [clients |-> Put(connectedClients, id, onlineEventRecord(status)),
              db |-> IF ~wasOnline
                     THEN recordConnectionStatus(database, id, "online", Absent,
                                                 dbOk)
                     ELSE database,
              sink |-> IF ~wasOnline
                       THEN <<Msg("client_connected", id, "info")>> ELSE <<>>,
              dbw |-> IF ~wasOnline
                      THEN <<[client_id |-> id, status |-> "online",
                              reason |-> Absent]>>
                      ELSE <<>>]
        ELSE LET clients2 == Put(connectedClients, id,
                                 offlineEventRecord(connectedClients, status))
             IN [clients |-> clients2,
                 db |-> IF wasOnline
                        THEN recordConnectionStatus(database, id, "offline",
                                                    status.reason, dbOk)
                        ELSE database,
                 sink |-> (IF wasOnline
                           THEN <<Msg("client_disconnected", id, "warning")>>
                           ELSE <<>>)
                          \o (IF activeClients(clients2) = {}
                              THEN <<Msg("all_offline", id, "warning")>>
                              ELSE <<>>),
                 dbw |-> IF wasOnline
                         THEN <<[client_id |-> id, status |-> "offline",
                                 reason |-> status.reason]>>
                         ELSE <<>>]

\* ---------------------------------------- metrics messages from the bus
\* The calls of publishAlert one after the other; the first that throws ends
\* the handler.
RECURSIVE publishAlerts(_)
publishAlerts(alerts) ==
    IF alerts = <<>>
    THEN [err |-> "none", pub |-> <<>>, sink |-> <<>>, emit |-> <<>>]
    ELSE LET p == publishAlert(Head(alerts))
             rest == publishAlerts(Tail(alerts))
         IN  IF p.err # "none"
             THEN [err |-> p.err, pub |-> p.pub, sink |-> p.sink,
                   emit |-> p.emit]
             ELSE [err |-> rest.err, pub |-> p.pub \o rest.pub,
                   sink |-> p.sink \o rest.sink, emit |-> p.emit \o rest.emit]

\* handleSystemMetrics, lines 850-932.  The record of the registry is
\* written in place before the first alert is published.
handleSystemMetrics(metrics) ==
    LET id == metrics.clientId
        sample == SampleValues[metrics.sample]
        client == connectedClients[id]
        alert(type, severity) ==
            [type |-> type, clientId |-> id, severity |-> severity,
             timestamp |-> now]
        cpu == IF sample.cpuUsage > CPU_THRESHOLD
               THEN <<alert("HIGH_CPU_USAGE", "warning")>> ELSE <<>>
        memory == IF sample.memoryUsage * 100
                        > MEMORY_THRESHOLD * sample.totalMemory
                  THEN <<alert("HIGH_MEMORY_USAGE", "warning")>> ELSE <<>>
        shouldSendReport == now - client.lastReport > REPORT_INTERVAL
        report == IF shouldSendReport
                  THEN <<alert("SYSTEM_HEALTH_REPORT", "info")>> ELSE <<>>
        p == publishAlerts(cpu \o memory \o report)
        touched == [client EXCEPT !.lastHeartbeat = now,
                                  !.metrics = metrics.sample]
    IN  IF id \notin DOMAIN connectedClients
        THEN [clients |-> connectedClients, err |-> "none", pub |-> <<>>,
              sink |-> <<>>, emit |-> <<>>]
        ELSE [clients |-> Put(connectedClients, id,
                              IF p.err = "none" /\ shouldSendReport
                              THEN [touched EXCEPT !.lastReport = now]
                              ELSE touched),
              err |-> p.err, pub |-> p.pub, sink |-> p.sink, emit |-> p.emit]

\* ---------------------------------------------------------------- actions
\* The clock advances by one minute; the sweep timer fires every
\* CHECK_INTERVAL and its callback runs before the next minute.  The relay
\* delivers within the minute: nothing is in flight when the clock advances.
Tick ==
    /\ now < MaxTime
    /\ ~sweepDue
    /\ bus = <<>>
    /\ now' = now + 1
    /\ sweepDue' = ((now + 1) % CHECK_INTERVAL = 0)
    /\ regular' = [a \in Agents |-> regular[a] /\ lastBeat[a] = now]
    /\ out' = NoOut("tick")
    /\ UNCHANGED <<histVars, asyncVars, clientVars, probeVars, envVars, connected, connectedClients,
                   lastAlertTimes, database, sessions, bus, lastBeat>>

\* publisher.on('connect'), lines 470-474.
RedisConnect ==
    /\ ~connected
    /\ connected' = TRUE
    /\ out' = [NoOut("redisConnect") EXCEPT
                 !.sink = <<Msg("redis_connected", Absent, "info")>>]
    /\ UNCHANGED <<histVars, asyncVars, clientVars, probeVars, envVars, now, sweepDue, connectedClients,
                   lastAlertTimes, database, sessions, bus, lastBeat, regular>>

\* publisher.on('error'), lines 476-480.
RedisError ==
    /\ connected
    /\ connected' = FALSE
    /\ out' = [NoOut("redisError") EXCEPT
                 !.sink = <<Msg("redis_error", Absent, "error")>>]
    /\ UNCHANGED <<histVars, asyncVars, clientVars, probeVars, envVars, now, sweepDue, connectedClients,
                   lastAlertTimes, database, sessions, bus, lastBeat, regular>>

\* A handshake check that lets the empty string through.
handshakeUndefinedOnly(clientId) ==
    IF clientId = Absent
    THEN [accepted |-> FALSE, closed |-> TRUE]
    ELSE [accepted |-> TRUE, closed |-> FALSE]

\* io.on('connection'), lines 507-514: a handshake whose clientId is falsy
\* (not given, or the empty string) is answered by socket.disconnect().
handshake(clientId) ==
    IF clientId \in NoIds
    THEN [accepted |-> FALSE, closed |-> TRUE]
    ELSE [accepted |-> TRUE, closed |-> FALSE]

\* io.on('connection') with a clientId, lines 506-531, and registerClient,
\* lines 572-592.  getLastConnectionStatus answers null when its query
\* fails (database.service.ts 113-116).  The message of line 519 reads
\* metadata.projectName: for a handshake without metadata the read throws
\* before the sink is called, and the handler ends there, with nothing
\* registered and no handler attached to the socket.
Connect(a, metadata, dbOk) ==
    LET existing == storeUp /\ a \in DOMAIN database
        crash == existing /\ metadata = Absent
        p == publishConnectionStatus(
                 StatusEvent(a, "online", metadata, "initial_connection"))
    IN  /\ handshake(a).accepted
        /\ a \in Agents => sessions[a] < MaxSessions
        /\ Len(bus) < MaxBus
        /\ IF crash
           THEN /\ out' = [NoOut("connect") EXCEPT
                             !.agent = a, !.thrown = TRUE]
                /\ UNCHANGED <<connectedClients, database, bus, sessions,
                               lastBeat, regular>>
           ELSE /\ connectedClients' =
                       Put(connectedClients, a, registerRecord(metadata))
                /\ database' = recordConnectionStatus(database, a, "online",
                                                      Absent, dbOk)
                /\ bus' = bus \o p.queued
                /\ sessions' = [x \in Agents |->
                                    IF x = a THEN sessions[x] + 1
                                    ELSE sessions[x]]
                /\ lastBeat' = [x \in Agents |->
                                    IF x = a THEN now ELSE lastBeat[x]]
                /\ regular' = [x \in Agents |->
                                   IF x = a /\ sessions[x] = 0 THEN TRUE
                                   ELSE regular[x]]
                /\ out' = [NoOut("connect") EXCEPT
                             !.agent = a, !.err = p.err, !.pub = p.pub,
                             !.attached = TRUE,
                             !.sink =
                                 IF existing
                                 THEN <<Msg("existing_client_reconnected", a,
                                            "info")>>
                                 ELSE <<>>,
                             !.dbw = <<[client_id |-> a, status |-> "online",
                                        reason |-> Absent]>>]
        /\ UNCHANGED <<histVars, asyncVars, clientVars, probeVars, envVars, now,
                       sweepDue, connected, lastAlertTimes>>

\* io.on('connection'), lines 506-531: any handshake, with or without a
\* clientId.
Handshake(clientId, metadata, dbOk) ==
    IF handshake(clientId).accepted
    THEN Connect(clientId, metadata, dbOk)
    ELSE /\ out' = [NoOut("reject") EXCEPT
                      !.agent = clientId,
                      !.closed = handshake(clientId).closed]
         /\ UNCHANGED <<histVars, asyncVars, clientVars, probeVars, envVars, now, sweepDue, connected,
                        connectedClients, lastAlertTimes, database, sessions,
                        bus, lastBeat, regular>>

\* socket.on('heartbeat'), lines 532-539.
Heartbeat(a, metadata) ==
    /\ sessions[a] > 0
    /\ connectedClients' =
           IF a \in DOMAIN connectedClients
           THEN Put(connectedClients, a,
                    heartbeatRecord(connectedClients[a], metadata))
           ELSE connectedClients
    /\ lastBeat' = [lastBeat EXCEPT ![a] = now]
    /\ out' = [NoOut("heartbeat") EXCEPT !.agent = a]
    /\ UNCHANGED <<histVars, asyncVars, clientVars, probeVars, envVars, now, sweepDue, connected,
                   lastAlertTimes, database, sessions, bus, regular>>

\* socket.on('metrics'), lines 541-554: the publish comes first, and when it
\* throws the registry update is not reached.
Metrics(a, metrics, metadata) ==
    LET p == publishSystemMetrics([clientId |-> a, sample |-> metrics])
    IN  /\ sessions[a] > 0
        /\ Len(mbus) < MaxMetricsBus
        /\ connectedClients' =
               IF p.err = "none" /\ a \in DOMAIN connectedClients
               THEN Put(connectedClients, a,
                        metricsRecord(connectedClients[a], metrics, metadata))
               ELSE connectedClients
        /\ mbus' = mbus \o p.queued
        /\ lastBeat' = [lastBeat EXCEPT ![a] = now]
        /\ out' = [NoOut("metrics") EXCEPT
                     !.agent = a, !.err = p.err, !.pub = p.pub,
                     !.sink = p.sink, !.emit = p.emit]
        /\ UNCHANGED <<histVars, asyncVars, clientVars, probeVars, phase, sinkUp, storeUp, newest,
                       lastCycle, now, sweepDue, connected, lastAlertTimes,
                       database, sessions, bus, regular>>

\* socket.on('disconnect'), lines 556-568.
Disconnect(a) ==
    LET metadata == IF a \in DOMAIN connectedClients
                    THEN connectedClients[a].metadata ELSE Absent
        p == publishConnectionStatus(
                 StatusEvent(a, "offline", metadata, "client_disconnected"))
    IN  /\ sessions[a] > 0
        /\ Len(bus) < MaxBus
        /\ sessions' = [sessions EXCEPT ![a] = @ - 1]
        /\ lastBeat' = [lastBeat EXCEPT ![a] = IF sessions[a] = 1 THEN 0 ELSE @]
        /\ regular' = [regular EXCEPT ![a] = IF sessions[a] = 1 THEN FALSE ELSE @]
        /\ bus' = bus \o p.queued
        /\ out' = [NoOut("disconnect") EXCEPT
                     !.agent = a, !.err = p.err, !.pub = p.pub,
                     !.sink = p.sink, !.emit = p.emit]
        /\ UNCHANGED <<histVars, asyncVars, clientVars, probeVars, envVars, now, sweepDue, connected, connectedClients,
                       lastAlertTimes, database>>

\* subscriber.on('message') for the connection-status channel, lines 485-502.
Deliver(dbOk) ==
    /\ bus # <<>>
    /\ LET status == Head(bus)
           h == handleConnectionStatus(status, dbOk)
       IN  /\ connectedClients' = h.clients
           /\ database' = h.db
           /\ out' = [NoOut("deliver") EXCEPT
                        !.agent = status.clientId, !.sink = h.sink,
                        !.dbw = h.dbw]
    /\ bus' = Tail(bus)
    /\ UNCHANGED <<histVars, asyncVars, clientVars, probeVars, envVars, now, sweepDue, connected,
                   lastAlertTimes, sessions, lastBeat, regular>>

\* subscriber.on('message') for the system-metrics channel, lines 485-502.
\* The source leaves the case of this channel commented out (lines 492-494)
\* and the compiled revision dispatches it to handleSystemMetrics: dispatch
\* tells which of the two is running.  An error of the handler is caught
\* and logged, lines 499-501.
DeliverMetrics(dispatch) ==
    /\ mbus # <<>>
    /\ LET metrics == Head(mbus)
           h == handleSystemMetrics(metrics)
           id == metrics.clientId
       IN  IF dispatch
           THEN /\ connectedClients' = h.clients
                /\ reports' =
                       IF \E i \in DOMAIN h.pub :
                              h.pub[i].data.type = "SYSTEM_HEALTH_REPORT"
                       THEN [reports EXCEPT ![id] = <<@[2], now>>]
                       ELSE reports
                /\ out' = [NoOut("deliverMetrics") EXCEPT
                             !.agent = metrics.clientId, !.err = h.err,
                             !.pub = h.pub, !.sink = h.sink, !.emit = h.emit]
           ELSE /\ connectedClients' = connectedClients
                /\ reports' = reports
                /\ out' = [NoOut("deliverMetrics") EXCEPT
                             !.agent = metrics.clientId]
    /\ mbus' = Tail(mbus)
    /\ UNCHANGED <<remote, asyncVars, clientVars, probeVars, phase, sinkUp, storeUp, newest,
                   lastCycle, now, sweepDue, connected, lastAlertTimes,
                   database, sessions, bus, lastBeat, regular>>

\* Another server process on the same relay bus accepts the session of an
\* agent: its registerClient (lines 572-592) publishes the online
\* StatusEvent, which the subscriber of this process receives.
RemoteConnect(a) ==
    /\ ~remote[a].session
    /\ Len(bus) < MaxBus
    /\ bus' = Append(bus, StatusEvent(a, "online", AgentMeta(a),
                                      "initial_connection"))
    /\ remote' = [remote EXCEPT ![a] =
                     [session |-> TRUE, beat |-> now, regular |-> TRUE]]
    /\ out' = NoOut("remoteConnect")
    /\ UNCHANGED <<reports, asyncVars, clientVars, probeVars, envVars, now,
                   sweepDue, connected, connectedClients, lastAlertTimes,
                   database, sessions, lastBeat, regular>>

\* The agent sends a heartbeat to the other process: its handler (lines
\* 532-539) writes the registry of that process and nothing else; nothing
\* is published and nothing is stored.  regular tells that no minute has
\* passed without a heartbeat since the session began.
RemoteHeartbeat(a) ==
    /\ remote[a].session
    /\ remote[a].beat < now
    /\ remote' = [remote EXCEPT ![a] =
                     [@ EXCEPT !.beat = now,
                               !.regular = @ /\ now - remote[a].beat
                                                    <= CHECK_INTERVAL]]
    /\ out' = NoOut("remoteHeartbeat")
    /\ UNCHANGED <<reports, asyncVars, clientVars, probeVars, envVars, now,
                   sweepDue, connected, connectedClients, lastAlertTimes,
                   database, sessions, bus, lastBeat, regular>>

\* The StatusEvents other processes on the bus can have published.
RemoteEvents ==
    {[clientId |-> a, status |-> st, timestamp |-> t, metadata |-> AgentMeta(a),
      reason |-> IF st = "online" THEN "initial_connection"
                 ELSE "client_disconnected"] :
        a \in Agents, st \in {"online", "offline"}, t \in 1..MaxStamp}

\* subscriber.on('message') for a StatusEvent that any process on the bus
\* has published, lines 485-502: the bus gives no order and may repeat.
Receive(status, dbOk) ==
    LET h == handleConnectionStatus(status, dbOk)
        id == status.clientId
        seen == newest[id]
    IN  /\ connectedClients' = h.clients
        /\ database' = h.db
        /\ newest' = [newest EXCEPT ![id] =
               IF status.timestamp > seen.timestamp
               THEN [timestamp |-> status.timestamp,
                     statuses |-> {status.status}]
               ELSE IF status.timestamp = seen.timestamp
               THEN [seen EXCEPT !.statuses = @ \cup {status.status}]
               ELSE seen]
        /\ out' = [NoOut("receive") EXCEPT
                     !.agent = id, !.sink = h.sink, !.dbw = h.dbw]
        /\ UNCHANGED <<histVars, asyncVars, clientVars, probeVars, phase, sinkUp, storeUp, mbus,
                       lastCycle, now, sweepDue, connected, lastAlertTimes, sessions,
                       bus, lastBeat, regular>>

\* The setInterval callback of startClientMonitoring, lines 600-655.
Sweep(dbOk) ==
    /\ sweepDue
    /\ sweepDue' = FALSE
    /\ LET st == sweepCycle(dbOk)
       IN  /\ database' = st.db
           /\ lastAlertTimes' = st.lat
           /\ out' = [NoOut("sweep") EXCEPT
                        !.sink = st.sink, !.dbw = st.dbw,
                        !.alerted = st.alerted, !.logged = st.logged,
                        !.thrown = st.thrown]
           /\ lastCycle' = <<lastCycle[2],
                             IF st.logged = <<>> THEN "ok" ELSE "failed">>
    /\ UNCHANGED <<histVars, asyncVars, clientVars, probeVars, phase, sinkUp, storeUp, mbus, newest,
                   now, connected, connectedClients, sessions, bus, lastBeat,
                   regular>>

\* shutdown(), lines 1027-1029: the final alert is awaited before anything
\* is closed.
ShutdownBegin ==
    LET s == telegramSendAlert(Msg("shutting_down", Absent, "warning"))
    IN  /\ phase = "running"
        /\ phase' = "closing"
        /\ out' = [NoOut("shutdownBegin") EXCEPT
                     !.sink = s.calls, !.logged = s.logged]
        /\ UNCHANGED <<histVars, asyncVars, clientVars, probeVars, serverVars_but_out, sinkUp,
                       storeUp, mbus, newest, lastCycle>>

\* shutdown(), lines 1030-1036.  io.disconnectSockets() has closed every
\* session (the disconnect handlers are Disconnect steps); then
\* subscriber.quit(), publisher.quit(), database.shutdown(),
\* telegram.shutdown() and connected = false.  The sweep timer is left armed.
ShutdownClose ==
    /\ phase = "closing"
    /\ \A a \in Agents : sessions[a] = 0
    /\ phase' = "closed"
    /\ connected' = FALSE
    /\ storeUp' = FALSE
    /\ bus' = <<>>
    /\ out' = [NoOut("shutdownClose") EXCEPT !.closed = TRUE]
    /\ UNCHANGED <<histVars, asyncVars, clientVars, probeVars, now, sweepDue, connectedClients,
                   lastAlertTimes, database, sessions, lastBeat, regular,
                   sinkUp, mbus, newest, lastCycle>>

\* process.exit() of the SIGTERM handler, lines 159-174: after
\* httpServer.close() has finished, or the forced exit 10 s later.
Exit ==
    /\ phase = "closed"
    /\ phase' = "exited"
    /\ out' = NoOut("exit")
    /\ UNCHANGED <<histVars, asyncVars, clientVars, probeVars, serverVars_but_out, sinkUp,
                   storeUp, mbus, newest, lastCycle>>

\* The notification sink becomes unreachable, or reachable again, by the
\* time the sweep timer fires.
SinkFault ==
    /\ sweepDue
    /\ sinkUp' = ~sinkUp
    /\ out' = NoOut("sinkFault")
    /\ UNCHANGED <<histVars, asyncVars, clientVars, probeVars, serverVars_but_out, phase, storeUp,
                   mbus, newest, lastCycle>>

\* The durable store stops answering queries, or answers again, by the
\* time the sweep timer fires.
StoreFault ==
    /\ sweepDue
    /\ storeUp' = ~storeUp
    /\ out' = NoOut("storeFault")
    /\ UNCHANGED <<histVars, asyncVars, clientVars, probeVars, serverVars_but_out, phase, sinkUp,
                   mbus, newest, lastCycle>>

\* A validation that asks for projectName only.
validAlertMetadataProjectOnly(metadata) ==
    metadata.projectName \notin {Absent, ""}

\* POST /api/alerts, line 109: metadata.projectName and metadata.location
\* are both truthy.
validAlertMetadata(metadata) ==
    /\ metadata.projectName \notin {Absent, ""}
    /\ metadata.location \notin {Absent, ""}

\* The metadata of the request bodies; a body without metadata is the one
\* with neither field.
RequestMetadata ==
    {[projectName |-> pn, location |-> l] :
        pn \in {Absent, "", "P"}, l \in {Absent, "", "L"}}

\* POST /api/alerts, lines 105-142, and publishAlert, lines 976-1004.
ApiAlert(severity, metadata) ==
    LET p == publishAlert([type |-> "custom", clientId |-> Absent,
                           severity |-> severity, timestamp |-> now])
    IN  /\ out' = IF ~validAlertMetadata(metadata)
                  THEN [NoOut("apiAlert") EXCEPT
                          !.request = metadata, !.http = 400]
                  ELSE [NoOut("apiAlert") EXCEPT
                          !.request = metadata,
                          !.err = p.err, !.pub = p.pub, !.sink = p.sink,
                          !.emit = p.emit, !.logged = p.logged,
                          !.http = IF p.err = "none" THEN 200 ELSE 500]
        /\ UNCHANGED <<histVars, asyncVars, clientVars, probeVars, envVars, now, sweepDue, connected,
                       connectedClients, lastAlertTimes, database, sessions,
                       bus, lastBeat, regular>>

\* ------------------------------------- handlers suspended on an await
\* Both handlers are async functions called from event callbacks that
\* nothing awaits (subscriber.on('message'), line 485; setInterval, line
\* 600): while one call waits for the store or the sink, the event loop
\* runs the next callback.  A call runs from one await to the next in a
\* single step.

\* subscriber.on('message'), lines 485-491, and handleConnectionStatus up
\* to its first await.  An online event writes the registry at once (778)
\* and waits only when the agent was not online before (786); an offline
\* event for an agent that is online waits for the store (811) before it
\* writes the registry, and writes at once otherwise (831).
StatusArrive(status) ==
    LET id == status.clientId
        known == id \in DOMAIN connectedClients
        wasOnline == known /\ connectedClients[id].status = "online"
        waits == IF status.status = "online" THEN ~wasOnline ELSE wasOnline
        clients2 == Put(connectedClients, id,
                        offlineEventRecord(connectedClients, status))
        s == telegramSendAlert(Msg("all_offline", id, "warning"))
    IN  /\ Len(statusWait) < MaxWaiting
        /\ arrived' = [arrived EXCEPT ![id] = status.status]
        /\ connectedClients' =
               IF status.status = "online"
               THEN Put(connectedClients, id, onlineEventRecord(status))
               ELSE IF wasOnline THEN connectedClients ELSE clients2
        /\ statusWait' =
               IF waits
               THEN Append(statusWait,
                           [status |-> status,
                            client |-> IF known THEN connectedClients[id]
                                       ELSE offlineEventRecord(<<>>, status)])
               ELSE statusWait
        /\ out' = [NoOut("statusArrive") EXCEPT
                     !.agent = id,
                     !.sink = IF status.status = "offline" /\ ~wasOnline
                                 /\ activeClients(clients2) = {}
                              THEN s.calls ELSE <<>>]
        /\ UNCHANGED <<histVars, clientVars, probeVars, envVars, now, sweepDue,
                       connected, lastAlertTimes, database, sessions, bus,
                       lastBeat, regular, cycleWait, lostAlerts>>

\* handleConnectionStatus from its first await to its end.  Online event,
\* lines 786-806: the sink call and the store's row.  Offline event, lines
\* 811-846: the store's row, the sink call, then the registry write of
\* line 831 with the record that was read at line 773, before the await.
StatusResume(i, dbOk) ==
    LET w == statusWait[i]
        status == w.status
        id == status.clientId
        clients2 == Put(connectedClients, id,
                        [w.client EXCEPT !.lastHeartbeat = status.timestamp,
                                         !.status = "offline"])
        s1 == telegramSendAlert(Msg("client_connected", id, "info"))
        s2 == telegramSendAlert(Msg("client_disconnected", id, "warning"))
        s3 == telegramSendAlert(Msg("all_offline", id, "warning"))
    IN  /\ statusWait' = SubSeq(statusWait, 1, i - 1)
                         \o SubSeq(statusWait, i + 1, Len(statusWait))
        /\ IF status.status = "online"
           THEN /\ connectedClients' = connectedClients
                /\ database' = recordConnectionStatus(database, id, "online",
                                                      Absent, dbOk)
                /\ out' = [NoOut("statusResume") EXCEPT
                             !.agent = id, !.sink = s1.calls,
                             !.dbw = <<[client_id |-> id, status |-> "online",
                                        reason |-> Absent]>>]
           ELSE /\ connectedClients' = clients2
                /\ database' = recordConnectionStatus(database, id, "offline",
                                                      status.reason, dbOk)
                /\ out' = [NoOut("statusResume") EXCEPT
                             !.agent = id,
                             !.sink = s2.calls
                                      \o (IF activeClients(clients2) = {}
                                          THEN s3.calls ELSE <<>>),
                             !.dbw = <<[client_id |-> id, status |-> "offline",
                                        reason |-> status.reason]>>]
        /\ UNCHANGED <<histVars, clientVars, probeVars, envVars, now, sweepDue,
                       connected, lastAlertTimes, sessions, bus, lastBeat,
                       regular, cycleWait, arrived, lostAlerts>>

\* startClientMonitoring, lines 613-635, and handleClientOffline, lines
\* 662-672: the row makes the cycle raise an alert.  active is the list
\* computed at line 607, lat the suppression map.
raisesAlert(item, active, lat) ==
    LET row == item.row
        id == row.client_id
        isConnected == \E c \in active : c.id = id
        timeSinceLastSeen == now - row.last_seen
        stale ==
            \/ id \notin DOMAIN connectedClients
            \/ connectedClients[id].status # "online"
            \/ now - connectedClients[id].lastHeartbeat > OFFLINE_THRESHOLD
        called == IF item.loop = "registered"
                  THEN ~isConnected /\ timeSinceLastSeen > OFFLINE_THRESHOLD
                       /\ stale
                  ELSE timeSinceLastSeen > OFFLINE_THRESHOLD
        fresh == /\ id \in DOMAIN connectedClients
                 /\ connectedClients[id].status = "online"
                 /\ now - connectedClients[id].lastHeartbeat < OFFLINE_THRESHOLD
    IN  called /\ ~fresh /\ alertDue(lat, id)

\* The two loops of lines 613-635 up to the first row that raises an alert:
\* the rows before it change nothing.
RECURSIVE untilAlert(_, _, _)
untilAlert(items, active, lat) ==
    IF items = <<>> \/ raisesAlert(Head(items), active, lat) THEN items
    ELSE untilAlert(Tail(items), active, lat)

\* The rows of the two queries of lines 603-606, in the order of the loops.
cycleItems ==
    LET registered == getRegisteredClients(database).rows
        offline == getOfflineClients(database).rows
    IN  [i \in 1..Len(registered) |->
             [row |-> registered[i], loop |-> "registered"]]
        \o [i \in 1..Len(offline) |->
                [row |-> offline[i], loop |-> "offline"]]

\* The callback of line 600 from the answer of the two queries to its first
\* await: the store call of handleClientOffline, line 682, reached after
\* the check of the suppression map (672) with currentTime read at line
\* 667; or, when no row raises an alert, the end of the cycle.
SweepBegin ==
    LET active == {connectedClients[c] : c \in activeClients(connectedClients)}
        items == untilAlert(cycleItems, active, lastAlertTimes)
        s == telegramSendAlert(Msg("no_active_clients", Absent, "warning"))
    IN  /\ sweepDue
        /\ Len(cycleWait) < MaxWaiting
        /\ sweepDue' = FALSE
        /\ cycleWait' =
               IF items = <<>> THEN cycleWait
               ELSE Append(cycleWait, [items |-> items, currentTime |-> now,
                                       active |-> active])
        /\ out' = [NoOut("sweepBegin") EXCEPT
                     !.sink = IF items = <<>> /\ active = {}
                              THEN s.calls ELSE <<>>]
        /\ UNCHANGED <<histVars, clientVars, probeVars, envVars, now, connected,
                       connectedClients, lastAlertTimes, database, sessions,
                       bus, lastBeat, regular, statusWait, arrived,
                       lostAlerts>>

\* handleClientOffline from its first await to its end, lines 682-707, and
\* the cycle from there to its next await or to its end.  The suppression
\* entry is written last (706), with the currentTime of line 667.
SweepResume(i, dbOk) ==
    LET w == cycleWait[i]
        id == Head(w.items).row.client_id
        s1 == telegramSendAlert(Msg("connection_lost", id, "warning"))
        s2 == sendKhmerDesktopDownAlert(id)
        s3 == telegramSendAlert(Msg("no_active_clients", Absent, "warning"))
        others == SubSeq(cycleWait, 1, i - 1)
                  \o SubSeq(cycleWait, i + 1, Len(cycleWait))
    IN  /\ database' = recordConnectionStatus(database, id, "offline",
                                              "connection_lost", dbOk)
        /\ lastAlertTimes' = Put(lastAlertTimes, id, w.currentTime)
        /\ lostAlerts' = [lostAlerts EXCEPT ![id] = Append(@, now)]
        /\ LET lat2 == Put(lastAlertTimes, id, w.currentTime)
               rest == untilAlert(Tail(w.items), w.active, lat2)
           IN  /\ cycleWait' =
                      IF rest = <<>> THEN others
                      ELSE Append(others, [w EXCEPT !.items = rest,
                                                    !.currentTime = now])
               /\ out' = [NoOut("sweepResume") EXCEPT
                            !.agent = id,
                            !.sink = s1.calls \o s2.calls
                                     \o (IF rest = <<>> /\ w.active = {}
                                         THEN s3.calls ELSE <<>>),
                            !.dbw = <<[client_id |-> id, status |-> "offline",
                                       reason |-> "connection_lost"]>>,
                            !.alerted = <<id>>]
        /\ UNCHANGED <<histVars, clientVars, probeVars, envVars, now, sweepDue,
                       connected, connectedClients, sessions, bus, lastBeat,
                       regular, statusWait, arrived>>

\* The store outlives the process: at start it is empty or holds the row of
\* an agent last seen more than the offline threshold ago.
InitialStores ==
    {<<>>} \cup
    {[c \in {a} |-> [client_id |-> a, status |-> st,
                     disconnect_reason |-> Absent,
                     last_seen |-> 0 - OFFLINE_THRESHOLD - 1]] :
        a \in Agents, st \in {"online", "offline"}}

InitServer ==
    /\ now = 0
    /\ sweepDue = FALSE
    /\ connected = FALSE
    /\ connectedClients = <<>>
    /\ lastAlertTimes = <<>>
    /\ database \in InitialStores
    /\ sessions = [a \in Agents |-> 0]
    /\ bus = <<>>
    /\ lastBeat = [a \in Agents |-> 0]
    /\ regular = [a \in Agents |-> FALSE]
    /\ out = NoOut("init")


InitEnv ==
    /\ phase = "running"
    /\ sinkUp = TRUE
    /\ storeUp = TRUE
    /\ mbus = <<>>
    /\ newest = [a \in Agents |-> [timestamp |-> 0 - 1, statuses |-> {}]]
    /\ lastCycle = <<"none", "none">>

\* ================================================== agent side: SocketClient
Min(x, y) == IF x <= y THEN x ELSE y

\* A reconnect delay that doubles without a cap.
getReconnectDelayUncapped(attempts) == RECONNECT_INTERVAL * 2^attempts

\* getReconnectDelay, lines 43-45, as a function of this.reconnectAttempts.
getReconnectDelay(attempts) ==
    Min(RECONNECT_INTERVAL * 2^attempts, MAX_RECONNECT_INTERVAL)

\* The fields handleReconnection reads and writes.
clientState ==
    [reconnectAttempts |-> reconnectAttempts, isReconnecting |-> isReconnecting,
     timerPending |-> timerPending, timerDelay |-> timerDelay]

\* A handleReconnection that starts the count again once it is at its
\* maximum.
handleReconnectionWraps(c) ==
    IF c.isReconnecting THEN c
    ELSE IF c.reconnectAttempts >= MAX_RECONNECT_ATTEMPTS
    THEN [c EXCEPT !.reconnectAttempts = 0]
    ELSE [c EXCEPT !.isReconnecting = TRUE,
                   !.reconnectAttempts = @ + 1,
                   !.timerPending = TRUE,
                   !.timerDelay = getReconnectDelay(c.reconnectAttempts + 1)]

\* A connect handler that leaves the reconnect timer armed.
onConnectKeepsTimer(c) ==
    [c EXCEPT !.reconnectAttempts = 0, !.isReconnecting = FALSE]

\* The field writes of the 'connect' handler, lines 52-54.
onConnect(c) ==
    [c EXCEPT !.reconnectAttempts = 0, !.isReconnecting = FALSE,
              !.timerPending = FALSE]

\* A handleReconnection that stops one attempt late.
handleReconnectionOneMore(c) ==
    IF c.isReconnecting \/ c.reconnectAttempts > MAX_RECONNECT_ATTEMPTS
    THEN c
    ELSE [c EXCEPT !.isReconnecting = TRUE,
                   !.reconnectAttempts = @ + 1,
                   !.timerPending = TRUE,
                   !.timerDelay = getReconnectDelay(c.reconnectAttempts + 1)]

\* handleReconnection, lines 101-120.
handleReconnection(c) ==
    IF c.isReconnecting \/ c.reconnectAttempts >= MAX_RECONNECT_ATTEMPTS
    THEN c
    ELSE [c EXCEPT !.isReconnecting = TRUE,
                   !.reconnectAttempts = @ + 1,
                   !.timerPending = TRUE,
                   !.timerDelay = getReconnectDelay(c.reconnectAttempts + 1)]

\* sendAlert, lines 154-169: an alert raised while the socket is not
\* connected is logged and dropped.
sendAlert(isConnected, alert) ==
    IF ~isConnected
    THEN [sent |-> <<>>, dropped |-> <<alert>>]
    ELSE [sent |-> <<alert>>, dropped |-> <<>>]

\* sendReconnectionAlert, lines 122-135.
sendReconnectionAlert(type, severity, attempts, isConnected) ==
    sendAlert(isConnected,
              [type |-> type, severity |-> severity, attempt |-> attempts])

NoCout(op) == [op |-> op, sent |-> <<>>, dropped |-> <<>>, notified |-> <<>>,
               opened |-> FALSE, cancelled |-> FALSE]

SetClientState(c) ==
    /\ reconnectAttempts' = c.reconnectAttempts
    /\ isReconnecting' = c.isReconnecting
    /\ timerPending' = c.timerPending
    /\ timerDelay' = c.timerDelay

\* connect(), lines 25-41: io() opens a new connection at once.
ConnectCall ==
    LET skip == socket = "connected" \/ isReconnecting
    IN  /\ socket' = IF skip THEN socket ELSE "opening"
        /\ mgrAttempts' = IF skip THEN mgrAttempts ELSE 0
        /\ cout' = [NoCout("connect") EXCEPT !.opened = ~skip]
        /\ UNCHANGED <<histVars, asyncVars, serverVars, probeVars, envVars, reconnectAttempts,
                       isReconnecting, timerPending, timerDelay, failures>>

\* socket.on('connect'), lines 50-57.
EvConnect ==
    /\ socket = "opening"
    /\ socket' = "connected"
    /\ mgrAttempts' = 0
    /\ LET c == onConnect(clientState)
           a == sendReconnectionAlert("CLIENT_CONNECTED", "info",
                                      c.reconnectAttempts, TRUE)
       IN  /\ SetClientState(c)
           /\ cout' = [NoCout("connect_event") EXCEPT
                         !.sent = a.sent, !.dropped = a.dropped,
                         !.notified = <<TRUE>>,
                         !.cancelled = (timerPending /\ ~c.timerPending)]
    /\ failures' = 0
    /\ UNCHANGED <<histVars, asyncVars, serverVars, probeVars, envVars>>

\* socket.on('connect_error'), lines 74-78, while the transport library
\* still has reconnection attempts left: it schedules its next attempt.
EvConnectError ==
    /\ socket = "opening"
    /\ mgrAttempts < MAX_RECONNECT_ATTEMPTS
    /\ socket' = "waiting"
    /\ SetClientState(handleReconnection(clientState))
    /\ failures' = Min(failures + 1, MaxFailures)
    /\ cout' = [NoCout("connect_error") EXCEPT !.notified = <<FALSE>>]
    /\ UNCHANGED <<histVars, asyncVars, serverVars, probeVars, envVars, mgrAttempts>>

\* socket.on('connect_error') for the library's last attempt
\* (reconnectionAttempts, line 34), followed in the same turn by
\* socket.io.on('reconnect_failed'), lines 80-84.
EvConnectErrorLast ==
    /\ socket = "opening"
    /\ mgrAttempts >= MAX_RECONNECT_ATTEMPTS
    /\ socket' = "idle"
    /\ mgrAttempts' = 0
    /\ LET c == handleReconnection(clientState)
           a == sendReconnectionAlert("RECONNECTION_FAILED", "error",
                                      c.reconnectAttempts, FALSE)
       IN  /\ SetClientState([c EXCEPT !.isReconnecting = FALSE])
           /\ cout' = [NoCout("reconnect_failed") EXCEPT
                         !.sent = a.sent, !.dropped = a.dropped,
                         !.notified = <<FALSE>>]
    /\ failures' = Min(failures + 1, MaxFailures)
    /\ UNCHANGED <<histVars, asyncVars, serverVars, probeVars, envVars>>

\* socket.io.on('reconnect_attempt'), lines 86-89: the library starts its
\* next attempt.
EvReconnectAttempt ==
    /\ socket = "waiting"
    /\ socket' = "opening"
    /\ mgrAttempts' = mgrAttempts + 1
    /\ LET a == sendReconnectionAlert("RECONNECTING", "warning",
                                      reconnectAttempts, FALSE)
       IN  cout' = [NoCout("reconnect_attempt") EXCEPT
                      !.sent = a.sent, !.dropped = a.dropped]
    /\ UNCHANGED <<histVars, asyncVars, serverVars, probeVars, envVars, reconnectAttempts, isReconnecting,
                   timerPending, timerDelay, failures>>

\* The reconnectTimer callback, lines 114-119: socket.connect() opens a
\* connection unless one is being opened or the library is reconnecting.
TimerFire ==
    /\ timerPending
    /\ timerPending' = FALSE
    /\ socket' = IF socket = "idle" THEN "opening" ELSE socket
    /\ cout' = [NoCout("timer") EXCEPT !.opened = (socket = "idle")]
    /\ UNCHANGED <<histVars, asyncVars, serverVars, probeVars, envVars, mgrAttempts, reconnectAttempts,
                   isReconnecting, timerDelay, failures>>

DisconnectReasons == {"io server disconnect", "transport close", "ping timeout"}

\* socket.on('disconnect'), lines 59-68.
EvDisconnect(reason) ==
    /\ socket = "connected"
    /\ socket' = IF reason \in {"io server disconnect", "transport close"}
                 THEN "opening" ELSE "waiting"
    /\ mgrAttempts' = 0
    /\ SetClientState(handleReconnection(clientState))
    /\ cout' = [NoCout("disconnect_event") EXCEPT !.notified = <<FALSE>>]
    /\ UNCHANGED <<histVars, asyncVars, serverVars, probeVars, envVars, failures>>

\* disconnect(), lines 207-219; closing a connected socket runs the
\* 'disconnect' handler (reason "io client disconnect") before it returns.
DisconnectCall ==
    LET c1 == [clientState EXCEPT !.timerPending = FALSE,
                                  !.isReconnecting = FALSE]
        c2 == IF socket = "connected" THEN handleReconnection(c1) ELSE c1
    IN  /\ socket' = "null"
        /\ mgrAttempts' = 0
        /\ SetClientState(c2)
        /\ cout' = [NoCout("disconnect") EXCEPT
                      !.notified = IF socket = "connected"
                                   THEN <<FALSE>> ELSE <<>>]
        /\ UNCHANGED <<histVars, asyncVars, serverVars, probeVars, envVars, failures>>

InitClient ==
    /\ socket = "null"
    /\ mgrAttempts = 0
    /\ reconnectAttempts = 0
    /\ isReconnecting = FALSE
    /\ timerPending = FALSE
    /\ timerDelay = 0
    /\ failures = 0
    /\ cout = NoCout("init")

\* ============================================ the reconnect delay function
InitProbe ==
    /\ probeN = 0
    /\ probeDelays = <<>>

\* getReconnectDelay applied to the next attempt number.
ProbeDelay ==
    /\ probeN <= MaxProbe
    /\ probeDelays' = Append(probeDelays, getReconnectDelay(probeN))
    /\ probeN' = probeN + 1
    /\ UNCHANGED <<histVars, asyncVars, serverVars, clientVars, envVars>>

\* ========================================================== specifications
InitAsync ==
    /\ statusWait = <<>>
    /\ cycleWait = <<>>
    /\ arrived = [a \in Agents |-> "none"]
    /\ lostAlerts = [a \in Agents |-> <<>>]
    /\ reports = [a \in Agents |-> <<Epoch, Epoch>>]
    /\ remote = [a \in Agents |->
                    [session |-> FALSE, beat |-> 0, regular |-> FALSE]]

Init == InitServer /\ InitEnv /\ InitClient /\ InitProbe /\ InitAsync

\* The registry, the relay bus and the liveness sweep under the clock; an
\* agent sends the metadata it was constructed with (part_007, lines 20-23).
Next ==
    \/ Tick
    \/ RedisConnect
    \/ RedisError
    \/ \E a \in Agents, dbOk \in BOOLEAN : Connect(a, AgentMeta(a), dbOk)
    \/ \E a \in Agents : Heartbeat(a, AgentMeta(a))
    \/ \E a \in Agents : Disconnect(a)
    \/ \E dbOk \in BOOLEAN : Deliver(dbOk)
    \/ \E dbOk \in BOOLEAN : Sweep(dbOk)

Spec == Init /\ [][Next]_vars

\* The registry and the relay bus with every inbound message and the alert
\* API, within one minute, in the build of the TypeScript source: its
\* subscriber has no case for the system-metrics channel (lines 492-494).
NextRelay ==
    \/ RedisConnect
    \/ RedisError
    \/ \E id \in Agents \cup NoIds, m \in Metas, dbOk \in BOOLEAN :
           Handshake(id, m, dbOk)
    \/ \E a \in Agents, m \in Metas : Heartbeat(a, m)
    \/ \E a \in Agents, x \in CalmSamples, m \in Metas : Metrics(a, x, m)
    \/ DeliverMetrics(FALSE)
    \/ \E a \in Agents : Disconnect(a)
    \/ \E dbOk \in BOOLEAN : Deliver(dbOk)
    \/ \E sev \in {"info", "warning", "error"} :
           ApiAlert(sev, [projectName |-> "P", location |-> "L"])

SpecRelay == Init /\ [][NextRelay]_vars

\* The agent-side reconnection logic.
NextClient ==
    \/ ConnectCall
    \/ EvConnect
    \/ EvConnectError
    \/ EvConnectErrorLast
    \/ EvReconnectAttempt
    \/ TimerFire
    \/ \E reason \in DisconnectReasons : EvDisconnect(reason)
    \/ DisconnectCall

SpecClient == Init /\ [][NextClient]_vars

\* A process that consumes the StatusEvents of other processes, started
\* before the first of them was published.
InitEvents ==
    /\ now = MaxStamp
    /\ sweepDue = FALSE
    /\ connected = TRUE
    /\ connectedClients = <<>>
    /\ lastAlertTimes = <<>>
    /\ database \in InitialStores
    /\ sessions = [a \in Agents |-> 0]
    /\ bus = <<>>
    /\ lastBeat = [a \in Agents |-> 0]
    /\ regular = [a \in Agents |-> FALSE]
    /\ out = NoOut("init")
    /\ InitEnv /\ InitClient /\ InitProbe /\ InitAsync

NextEvents == \E ev \in RemoteEvents, dbOk \in BOOLEAN : Receive(ev, dbOk)

SpecEvents == InitEvents /\ [][NextEvents]_vars

\* The metrics of the agents through the relay and back to the registry.
NextMetrics ==
    \/ RedisConnect
    \/ RedisError
    \/ \E a \in Agents, dbOk \in BOOLEAN : Connect(a, AgentMeta(a), dbOk)
    \/ \E dbOk \in BOOLEAN : Deliver(dbOk)
    \/ \E a \in Agents, x \in Samples : Metrics(a, x, AgentMeta(a))
    \/ \E dispatch \in BOOLEAN : DeliverMetrics(dispatch)

SpecMetrics == Init /\ [][NextMetrics]_vars

\* Alerts from the API and from the sweep while the sink fails and recovers.
NextAlerts ==
    \/ now < MaxFaultTime /\ Tick
    \/ RedisConnect
    \/ RedisError
    \/ \E sev \in {"info", "warning", "error"}, m \in RequestMetadata :
           ApiAlert(sev, m)
    \/ \E dbOk \in BOOLEAN : Sweep(dbOk)
    \/ SinkFault

SpecAlerts == Init /\ [][NextAlerts]_vars

\* The sweep while the sink and the store fail and recover.
NextFaults ==
    \/ now < MaxFaultTime /\ Tick
    \/ RedisConnect
    \/ \E a \in Agents, dbOk \in BOOLEAN : Connect(a, AgentMeta(a), dbOk)
    \/ \E a \in Agents : Disconnect(a)
    \/ \E dbOk \in BOOLEAN : Deliver(dbOk)
    \/ \E dbOk \in BOOLEAN : Sweep(dbOk)
    \/ SinkFault
    \/ StoreFault

SpecFaults == Init /\ [][NextFaults]_vars

\* The server from start to process exit: shutdown() can be called at any
\* time, and until the process exits its timers keep firing.
NextShutdown ==
    \/ phase # "exited" /\ Tick
    \/ phase # "exited" /\ \E dbOk \in BOOLEAN : Sweep(dbOk)
    \/ phase = "running" /\ RedisConnect
    \/ phase = "running" /\
           \E a \in Agents, dbOk \in BOOLEAN : Connect(a, AgentMeta(a), dbOk)
    \/ phase \in {"running", "closing"} /\ \E a \in Agents : Disconnect(a)
    \/ phase \in {"running", "closing"} /\ \E dbOk \in BOOLEAN : Deliver(dbOk)
    \/ ShutdownBegin
    \/ ShutdownClose
    \/ Exit

SpecShutdown == Init /\ [][NextShutdown]_vars

\* Status events that arrive while the handlers of earlier ones wait for
\* the store and the sink.
NextOrder ==
    \/ \E a \in Agents, st \in {"online", "offline"} :
           StatusArrive(StatusEvent(a, st, AgentMeta(a),
                                    IF st = "online" THEN "initial_connection"
                                    ELSE "client_disconnected"))
    \/ \E i \in DOMAIN statusWait, dbOk \in BOOLEAN : StatusResume(i, dbOk)

SpecOrder == Init /\ [][NextOrder]_vars

\* Sweep cycles that start while earlier ones wait for the store and the
\* sink.
NextOverlap ==
    \/ now < MaxOverlapTime /\ Tick
    \/ SweepBegin
    \/ \E i \in DOMAIN cycleWait, dbOk \in BOOLEAN : SweepResume(i, dbOk)

SpecOverlap == Init /\ [][NextOverlap]_vars

\* ConnectionStatus.status, connection.type.ts line 13.
WireStatuses == {"online", "offline", "idle"}

\* The StatusEvents of the wire contract that no process of this program
\* publishes: another publisher on the bus can send them now.
ForeignEvents ==
    {StatusEvent(a, st, AgentMeta(a), Absent) :
        a \in Agents, st \in WireStatuses \ {"online", "offline"}}

\* Every operation that reads or writes the registry: connect, heartbeat,
\* metrics, disconnect, the sweep, the StatusEvents this process publishes
\* and the ones only another publisher can send.  The agent holds one
\* session at a time and sends its next metrics message after the relay has
\* delivered the one before.
NextRegistry ==
    \/ now < MaxRegistryTime /\ Tick
    \/ RedisConnect
    \/ \E a \in Agents, dbOk \in BOOLEAN :
           sessions[a] = 0 /\ Connect(a, AgentMeta(a), dbOk)
    \/ \E a \in Agents : Heartbeat(a, AgentMeta(a))
    \/ \E a \in Agents, x \in CalmSamples :
           mbus = <<>> /\ Metrics(a, x, AgentMeta(a))
    \/ \E dispatch \in BOOLEAN : DeliverMetrics(dispatch)
    \/ \E a \in Agents : Disconnect(a)
    \/ \E dbOk \in BOOLEAN : Deliver(dbOk)
    \/ \E dbOk \in BOOLEAN : Sweep(dbOk)
    \/ \E ev \in ForeignEvents, dbOk \in BOOLEAN : Receive(ev, dbOk)

SpecRegistry == Init /\ [][NextRegistry]_vars

\* Handshakes of every kind: with and without a clientId, with and without
\* metadata, for an agent the store knows or does not know, while the store
\* answers or fails.
NextHandshake ==
    \/ now < MaxRegistryTime /\ Tick
    \/ RedisConnect
    \/ StoreFault
    \/ \E id \in Agents \cup NoIds, m \in Metas \cup {Absent},
          dbOk \in BOOLEAN : Handshake(id, m, dbOk)
    \/ \E a \in Agents : Disconnect(a)
    \/ \E dbOk \in BOOLEAN : Deliver(dbOk)
    \/ \E dbOk \in BOOLEAN : Sweep(dbOk)

SpecHandshake == Init /\ [][NextHandshake]_vars

\* This process as the second of two on one relay bus: the agent holds its
\* session with the other process and this one sees only what the bus
\* delivers.
NextSecond ==
    \/ Tick
    \/ \E a \in Agents : RemoteConnect(a)
    \/ \E a \in Agents : RemoteHeartbeat(a)
    \/ \E dbOk \in BOOLEAN : Deliver(dbOk)
    \/ \E dbOk \in BOOLEAN : Sweep(dbOk)

SpecSecond == Init /\ [][NextSecond]_vars

\* The server under fair scheduling: the event loop runs every callback
\* that is due (the timer of the sweep, the message handler of the
\* subscriber) and the relay transport reconnects when it is down.  The
\* agents connect and disconnect as they like.
NextLive ==
    \/ now < MaxFaultTime /\ Tick
    \/ RedisConnect
    \/ RedisError
    \/ \E a \in Agents, dbOk \in BOOLEAN : Connect(a, AgentMeta(a), dbOk)
    \/ \E a \in Agents : Disconnect(a)
    \/ \E dbOk \in BOOLEAN : Deliver(dbOk)
    \/ \E dbOk \in BOOLEAN : Sweep(dbOk)

SpecLive ==
    /\ Init
    /\ [][NextLive]_vars
    /\ WF_vars(now < MaxFaultTime /\ Tick)
    /\ WF_vars(RedisConnect)
    /\ WF_vars(\E dbOk \in BOOLEAN : Deliver(dbOk))
    /\ WF_vars(\E dbOk \in BOOLEAN : Sweep(dbOk))

\* The reconnect delay for consecutive attempt numbers, from any start.
InitDelay == InitServer /\ InitEnv /\ InitClient /\ InitAsync
             /\ probeN \in 0..MaxProbe
             /\ probeDelays = <<>>

NextDelay == ProbeDelay

SpecDelay == InitDelay /\ [][NextDelay]_vars

\* ================================================================ properties
Range(s) == {s[i] : i \in DOMAIN s}

\* The registry holds the agent and has not heard from it for longer than
\* the offline threshold.
Silent(a) ==
    /\ a \in DOMAIN connectedClients
    /\ now - connectedClients[a].lastHeartbeat > OFFLINE_THRESHOLD

\* C1: a step of the heartbeat handler or of the metrics handler leaves the
\* registry status of every agent as it was (and adds no agent), whether the
\* agent is online or offline; a status is set or changed only by a step of
\* the connect path, of the delivery of a connect/disconnect StatusEvent, or
\* of the sweep.
C1_TouchKeepsStatus ==
    [][ /\ (out'.op \in {"heartbeat", "metrics"}) =>
               /\ DOMAIN connectedClients' = DOMAIN connectedClients
               /\ \A a \in DOMAIN connectedClients :
                      connectedClients'[a].status = connectedClients[a].status
        /\ (\E a \in DOMAIN connectedClients' :
               \/ a \notin DOMAIN connectedClients
               \/ connectedClients'[a].status # connectedClients[a].status)
           => out'.op \in {"connect", "deliver", "sweep"} ]_vars

\* C1 witness: the metrics handler has stored a snapshot for an agent whose
\* status is offline, and the status is still offline.
C1_Witness ==
    /\ out.op = "metrics"
    /\ out.err = "none"
    /\ out.agent \in DOMAIN connectedClients
    /\ connectedClients[out.agent].status = "offline"
    /\ connectedClients[out.agent].metrics # Absent
    /\ sessions[out.agent] > 0

\* C2: after a sweep cycle, an agent that has held a session without a break
\* and has signalled in every minute of it has not been treated as offline
\* by that cycle: no connection_lost alert, no offline row, no sink call
\* for it.
C2_HeartbeatingNeverLost ==
    out.op = "sweep" =>
        \A a \in Agents :
            (sessions[a] > 0 /\ regular[a]) =>
                /\ a \notin Range(out.alerted)
                /\ \A i \in DOMAIN out.dbw : out.dbw[i].client_id # a
                /\ \A i \in DOMAIN out.sink : out.sink[i].client # a

\* C3: after a sweep cycle that found an agent silent for longer than the
\* offline threshold and handled it as offline, the registry status of the
\* agent is offline.
C3_SilentMarkedOffline ==
    out.op = "sweep" =>
        \A a \in Agents :
            (Silent(a) /\ a \in Range(out.alerted)) =>
                connectedClients[a].status = "offline"

\* C4: the sweep cycle that handles the silent agent connected with metadata
\* P/L publishes exactly one offline StatusEvent with reason connection_lost
\* on the connection-status channel and makes exactly one warning-severity
\* sink call for the agent.
C4_SweepPublishesOneOfflineEvent ==
    out.op = "sweep" =>
        \A a \in Agents :
            (/\ Silent(a)
             /\ connectedClients[a].metadata = "P/L"
             /\ a \in Range(out.alerted)) =>
                /\ Cardinality({i \in DOMAIN out.pub :
                       /\ out.pub[i].channel = "connection:status"
                       /\ out.pub[i].data.clientId = a
                       /\ out.pub[i].data.status = "offline"
                       /\ out.pub[i].data.reason = "connection_lost"}) = 1
                /\ Cardinality({i \in DOMAIN out.sink :
                       /\ out.sink[i].client = a
                       /\ out.sink[i].severity = "warning"}) = 1

C6_NotConnectedNoSideEffects ==
    [][ (~connected /\ out'.op \in {"apiAlert", "metrics", "disconnect",
                                    "connect"}) =>
            /\ out'.err = NotConnected
            /\ out'.pub = <<>>
            /\ out'.emit = <<>>
            /\ bus' = bus
            /\ lastAlertTimes' = lastAlertTimes
            /\ out'.op # "connect" => out'.sink = <<>> ]_vars

\* C6 witness: the alert API has been called while the transport was down.
C6_Witness ==
    /\ ~connected
    /\ out.op = "apiAlert"
    /\ out.err = NotConnected

\* C7: the delay computed for attempt number n is 5000, 10000, 20000, 30000,
\* 30000 for n = 0..4, is 30000 for every larger n, and is never more than
\* 30000.
C7_DelaySequence ==
    \A i \in DOMAIN probeDelays :
        LET n == probeN - Len(probeDelays) + i - 1
        IN  /\ probeDelays[i] <= 30000
            /\ n <= 4 => probeDelays[i] = <<5000, 10000, 20000, 30000, 30000>>[n + 1]
            /\ n > 4 => probeDelays[i] = 30000

\* C7 witness: the delays of attempts 0..4 and of a later attempt have been
\* computed.
C7_Witness ==
    /\ probeN - Len(probeDelays) = 0
    /\ Len(probeDelays) >= 6
    /\ probeDelays[1] = 5000
    /\ probeDelays[6] = 30000

C9_ManualConnectResets ==
    [][ (/\ cout'.op = "connect"
         /\ reconnectAttempts >= MAX_RECONNECT_ATTEMPTS
         /\ failures >= MAX_RECONNECT_ATTEMPTS
         /\ ~timerPending
         /\ socket # "connected") =>
            /\ reconnectAttempts' = 0
            /\ cout'.opened ]_vars

\* C10: registering an agent the registry already holds (the connect path,
\* or the delivery of an online StatusEvent) keeps the metrics snapshot
\* stored for it.
C10_RegisterKeepsMetrics ==
    [][ \A a \in DOMAIN connectedClients :
          (/\ out'.agent = a
           /\ connectedClients[a].metrics # Absent
           /\ \/ out'.op = "connect"
              \/ out'.op = "deliver" /\ bus # <<>>
                                     /\ Head(bus).status = "online") =>
              connectedClients'[a].metrics = connectedClients[a].metrics ]_vars

\* The StatusEvents a handler has published on the connection-status channel.
StatusPubs(o) == {i \in DOMAIN o.pub : o.pub[i].channel = "connection:status"}

\* C11 as stated: every step of the connect path publishes exactly one
\* StatusEvent (online, initial_connection) on the connection-status
\* channel, every step of the disconnect handler exactly one (offline,
\* client_disconnected), and a heartbeat or metrics step none.
C11_OneStatusEventPerTransition ==
    [][ /\ out'.op \in {"connect", "disconnect"} =>
               /\ Cardinality(StatusPubs(out')) = 1
               /\ \A i \in StatusPubs(out') :
                      /\ out'.pub[i].data.clientId = out'.agent
                      /\ out'.pub[i].data.status =
                             (IF out'.op = "connect" THEN "online" ELSE "offline")
                      /\ out'.pub[i].data.reason =
                             (IF out'.op = "connect" THEN "initial_connection"
                              ELSE "client_disconnected")
        /\ out'.op \in {"heartbeat", "metrics"} => StatusPubs(out') = {} ]_vars

\* C11: while the relay transport is connected, a step of the connect path
\* and a step of the disconnect handler each publish exactly one StatusEvent
\* on the connection-status channel (online with reason initial_connection,
\* offline with reason client_disconnected) and put exactly that event on
\* the bus; while it is disconnected they publish none and the bus stays;
\* a heartbeat or metrics step never publishes a StatusEvent.
C11_OneStatusEventWhileConnected ==
    [][ /\ (connected /\ out'.op \in {"connect", "disconnect"}) =>
               /\ Cardinality(StatusPubs(out')) = 1
               /\ Len(out'.pub) = 1
               /\ \A i \in StatusPubs(out') :
                      /\ out'.pub[i].data.clientId = out'.agent
                      /\ out'.pub[i].data.status =
                             (IF out'.op = "connect" THEN "online" ELSE "offline")
                      /\ out'.pub[i].data.reason =
                             (IF out'.op = "connect" THEN "initial_connection"
                              ELSE "client_disconnected")
                      /\ bus' = Append(bus, out'.pub[i].data)
        /\ (~connected /\ out'.op \in {"connect", "disconnect"}) =>
               /\ StatusPubs(out') = {}
               /\ bus' = bus
        /\ out'.op \in {"heartbeat", "metrics"} =>
               /\ StatusPubs(out') = {}
               /\ bus' = bus ]_vars

\* C11 witness: the disconnect handler has published its one offline event.
C11_Witness ==
    /\ out.op = "disconnect"
    /\ out.err = "none"
    /\ Cardinality(StatusPubs(out)) = 1
    /\ bus # <<>>
    /\ bus[Len(bus)].status = "offline"
    /\ bus[Len(bus)].reason = "client_disconnected"

\* C12: a handshake without a clientId (none, or the empty string) is
\* rejected: the socket is disconnected, no message handler is attached,
\* the registry, the durable store and the bus stay as they were, nothing is
\* published, written or sent to the sink, and nothing is thrown.
C12_HandshakeWithoutIdRejected ==
    [][ (out'.op \in {"connect", "reject"} /\ out'.agent \in NoIds) =>
            /\ out'.op = "reject"
            /\ out'.closed
            /\ ~out'.attached
            /\ out'.err = "none"
            /\ out'.pub = <<>>
            /\ out'.dbw = <<>>
            /\ out'.sink = <<>>
            /\ connectedClients' = connectedClients
            /\ database' = database
            /\ bus' = bus
            /\ sessions' = sessions ]_vars

\* C12 witness: a handshake with an empty clientId has been rejected while
\* the registry holds an agent.
C12_Witness ==
    /\ out.op = "reject"
    /\ out.agent = ""
    /\ out.closed
    /\ connectedClients # <<>>

\* C13: a sweep cycle that detects an agent as offline puts an offline event
\* for that agent on the relay bus, from where the subscriber of every
\* process (the detecting one included) can forward it to its viewers.
C13_SweepOfflineOnBus ==
    out.op = "sweep" =>
        \A a \in Range(out.alerted) :
            /\ \E i \in StatusPubs(out) :
                   /\ out.pub[i].data.clientId = a
                   /\ out.pub[i].data.status = "offline"
            /\ \E i \in DOMAIN bus :
                   /\ bus[i].clientId = a
                   /\ bus[i].status = "offline"

\* C14: after a process has handled any StatusEvents for an agent from the
\* bus, in any order and with repeats, the registry status of the agent is
\* the status carried by the event with the greatest timestamp among them
\* (where that timestamp carries one status).
C14_LastWriteWinsByTimestamp ==
    out.op = "receive" =>
        \A a \in Agents :
            Cardinality(newest[a].statuses) = 1 =>
                /\ a \in DOMAIN connectedClients
                /\ connectedClients[a].status \in newest[a].statuses

\* C15: once shutdown has closed the relay connections and the durable
\* store, no cycle of the liveness sweep runs any more (the sweep timer was
\* cancelled before they were closed).
C15_NoSweepAfterShutdown ==
    phase = "closed" => out.op # "sweep"

NoActiveWarnings(o) ==
    {i \in DOMAIN o.sink : o.sink[i].kind = "no_active_clients"}

C17_OneNoActiveWarningPerCycle ==
    [][(sweepDue /\ out'.op = "sweep") =>
          IF activeClients(connectedClients) = {}
          THEN Cardinality(NoActiveWarnings(out')) = 1
          ELSE NoActiveWarnings(out') = {}]_vars

\* A cycle with no agent Online in which the per-agent alert was held back
\* by a suppression entry of an earlier cycle, and the warning was sent.
C17_Witness ==
    /\ out.op = "sweep"
    /\ activeClients(connectedClients) = {}
    /\ \E a \in Agents :
           /\ a \in DOMAIN lastAlertTimes
           /\ lastAlertTimes[a] < now
           /\ now - lastAlertTimes[a] < ALERT_INTERVAL
    /\ out.alerted = <<>>
    /\ Cardinality(NoActiveWarnings(out)) = 1

Raised(o, type) ==
    \E i \in DOMAIN o.pub :
        /\ o.pub[i].channel = "system:alerts"
        /\ o.pub[i].data.type = type

\* C18: samples of one agent above the CPU threshold (or the memory
\* threshold) raise HIGH_CPU_USAGE (HIGH_MEMORY_USAGE) at most once per
\* suppression window: of two samples handled one after the other within
\* the same minute, at most one raises the alert.
C18_HighUsageAlertOncePerWindow ==
    [][(/\ out.op = "deliverMetrics" /\ out'.op = "deliverMetrics"
        /\ out.agent = out'.agent
        /\ now' = now) =>
          \A type \in {"HIGH_CPU_USAGE", "HIGH_MEMORY_USAGE"} :
              ~(Raised(out, type) /\ Raised(out', type))]_vars

\* C19: an agent that holds a live session and whose last liveness signal
\* is less than the offline threshold old is Online in the registry.
C19_LiveSessionIsOnline ==
    \A a \in Agents :
        (sessions[a] > 0 /\ now - lastBeat[a] < OFFLINE_THRESHOLD) =>
            /\ a \in DOMAIN connectedClients
            /\ connectedClients[a].status = "online"

\* C20: a metrics message from a registered agent refreshes the registry
\* entry of the agent: after it the entry holds a metrics sample and the
\* time of the message as lastHeartbeat, whether or not the relay is
\* connected.
C20_MetricsRefreshRegistry ==
    [][\A a \in Agents :
          (/\ out'.op = "metrics" /\ out'.agent = a
           /\ a \in DOMAIN connectedClients) =>
              /\ connectedClients'[a].metrics \in Samples
              /\ connectedClients'[a].lastHeartbeat = now]_vars

AlertPubs(o) == {i \in DOMAIN o.pub : o.pub[i].channel = "system:alerts"}

\* C21: an alert raised while the sink cannot be reached is still published
\* on the alerts channel and emitted to the live viewers, the failure is
\* logged and the caller gets no error; a sweep cycle that alerts for an
\* agent while the sink cannot be reached still writes the suppression
\* entry of the agent.
C21_SinkIsBestEffort ==
    [][/\ (~sinkUp /\ connected /\ out'.op = "apiAlert" /\ out'.http # 400) =>
            /\ out'.err = "none" /\ out'.http = 200
            /\ Cardinality(AlertPubs(out')) = 1
            /\ Len(out'.emit) = 1
            /\ out'.logged # <<>>
       /\ (~sinkUp /\ sweepDue /\ out'.op = "sweep") =>
            /\ ~out'.thrown
            /\ \A i \in DOMAIN out'.sink :
                   out'.sink[i].kind = "connection_lost" =>
                       /\ out'.sink[i].client \in DOMAIN lastAlertTimes'
                       /\ lastAlertTimes'[out'.sink[i].client] = now]_vars

\* The latest sweep cycle failed on the sink and wrote a suppression entry,
\* and an alert of the API was then published and emitted with the sink
\* still out of reach.
C21_Witness ==
    /\ ~sinkUp /\ connected
    /\ out.op = "apiAlert" /\ out.http = 200
    /\ out.emit # <<>> /\ out.logged # <<>>
    /\ lastCycle[2] = "failed"
    /\ \E a \in Agents :
           a \in DOMAIN lastAlertTimes /\ lastAlertTimes[a] = now

\* C22: a request to the alert API whose metadata lacks projectName or
\* location is answered 400 and publishes nothing, calls no sink and emits
\* nothing; with both fields the alert is published exactly once and the
\* answer is 200 while the relay is connected, and the answer is 500 with
\* no sink call and nothing published while it is not.
C22_AlertApiValidation ==
    [][out'.op = "apiAlert" =>
          LET missing == \/ out'.request.projectName \in {Absent, ""}
                         \/ out'.request.location \in {Absent, ""}
          IN  /\ missing =>
                    /\ out'.http = 400
                    /\ out'.pub = <<>> /\ out'.sink = <<>> /\ out'.emit = <<>>
              /\ (~missing /\ connected) =>
                    /\ out'.http = 200
                    /\ Len(out'.pub) = 1 /\ Cardinality(AlertPubs(out')) = 1
              /\ (~missing /\ ~connected) =>
                    /\ out'.http = 500
                    /\ out'.pub = <<>> /\ out'.sink = <<>>
                    /\ out'.emit = <<>>]_vars

\* A request with a projectName and no location was answered 400 while the
\* relay was connected.
C22_Witness ==
    /\ out.op = "apiAlert"
    /\ connected
    /\ out.request.projectName = "P"
    /\ out.request.location \in {Absent, ""}
    /\ out.http = 400 /\ out.pub = <<>>

\* C23: the attempt count of the agent goes down only in the handler of a
\* successful connect, which sets it to 0; the handlers of disconnect,
\* connect_error and reconnect_failed and the calls of connect() and
\* disconnect() never decrease it.
C23_CountResetOnlyOnConnect ==
    [][reconnectAttempts' < reconnectAttempts =>
          (cout'.op = "connect_event" /\ reconnectAttempts' = 0)]_vars

\* disconnect() or connect() has been called, or a connection attempt has
\* failed, with the count at its maximum, and the count is unchanged.
C23_Witness ==
    /\ cout.op \in {"disconnect", "connect", "connect_error",
                    "reconnect_failed"}
    /\ reconnectAttempts = MAX_RECONNECT_ATTEMPTS

\* C24: the handler of a successful connect sets the attempt count to 0,
\* clears the reconnecting flag, leaves no reconnect timer armed, notifies
\* the status handlers with connected = true and emits exactly one
\* info-severity CLIENT_CONNECTED alert.
C24_ConnectResetsStateMachine ==
    [][cout'.op = "connect_event" =>
          /\ reconnectAttempts' = 0
          /\ ~isReconnecting'
          /\ ~timerPending'
          /\ cout'.notified = <<TRUE>>
          /\ cout'.sent = <<[type |-> "CLIENT_CONNECTED", severity |-> "info",
                             attempt |-> 0]>>
          /\ cout'.dropped = <<>>]_vars

\* A connect succeeded while a reconnect timer was armed, and the timer was
\* cancelled.
C24_Witness ==
    /\ cout.op = "connect_event"
    /\ cout.cancelled
    /\ socket = "connected"

\* C25: a step that enters Disconnected(n), taking the attempt count from n
\* to n + 1, arms the reconnect timer with delay(n) =
\* min(RECONNECT_INTERVAL * 2^n, MAX_RECONNECT_INTERVAL): 5000 ms for the
\* first reconnect after a connection is lost, 10000 ms for the second.
C25_ScheduledAfterDelayOfN ==
    [][reconnectAttempts' = reconnectAttempts + 1 =>
          /\ timerPending'
          /\ timerDelay' = Min(RECONNECT_INTERVAL * 2^reconnectAttempts,
                               MAX_RECONNECT_INTERVAL)]_vars

\* C26: a connection attempt that fails while the attempt count is below
\* the maximum increases the count by one and leaves a reconnect pending.
C26_FailureSchedulesNextAttempt ==
    [][(cout'.op = "connect_error"
        /\ reconnectAttempts < MAX_RECONNECT_ATTEMPTS) =>
          /\ reconnectAttempts' = reconnectAttempts + 1
          /\ timerPending']_vars

\* C27: when the agent gives up, one error-severity RECONNECTION_FAILED
\* alert is handed to the transport.
C27_GaveUpAlertEmitted ==
    cout.op = "reconnect_failed" =>
        \E i \in DOMAIN cout.sent :
            /\ cout.sent[i].type = "RECONNECTION_FAILED"
            /\ cout.sent[i].severity = "error"

\* C28: every reconnect attempt hands one RECONNECTING alert to the
\* transport at the time of the attempt, carrying the attempt count.
C28_ReconnectAlertEmitted ==
    cout.op = "reconnect_attempt" =>
        \E i \in DOMAIN cout.sent :
            /\ cout.sent[i].type = "RECONNECTING"
            /\ cout.sent[i].attempt = reconnectAttempts

\* C29: the status events of one agent take effect in the order of their
\* arrival: once every handler has finished, the registry holds the status
\* of the event that arrived last (offline then online leaves the agent
\* online), also when the handler of the earlier event was still waiting
\* for the store or the sink while the later event was handled.
C29_StatusInArrivalOrder ==
    \A a \in Agents :
        (statusWait = <<>> /\ arrived[a] # "none") =>
            /\ a \in DOMAIN connectedClients
            /\ connectedClients[a].status = arrived[a]

\* C30: the suppression window holds when sweep cycles interleave: two
\* connection_lost alerts for one agent are at least ALERT_INTERVAL apart,
\* also when a cycle still waits for the store or the sink while the next
\* tick starts another cycle.
C30_OneAlertPerWindowInterleaved ==
    \A a \in Agents : \A i, j \in DOMAIN lostAlerts[a] :
        i < j => lostAlerts[a][j] - lostAlerts[a][i] >= ALERT_INTERVAL

\* C31: the periodic health report is throttled per agent: two
\* SYSTEM_HEALTH_REPORT alerts published for one agent are at least
\* REPORT_INTERVAL apart, whatever metrics messages arrive and also when
\* the agent registers again in between.
C31_OneReportPerInterval ==
    \A a \in Agents :
        reports[a][1] # Epoch => reports[a][2] - reports[a][1] >= REPORT_INTERVAL

\* C32: every transport disconnect of a registered agent is eventually
\* followed by a state in which the agent's registry entry is offline, also
\* when the relay bus is disconnected at the time of the disconnect.
C32_DisconnectLeadsToOffline ==
    \A a \in Agents :
        (out.op = "disconnect" /\ out.agent = a /\ a \in DOMAIN connectedClients)
            ~> (/\ a \in DOMAIN connectedClients
                /\ connectedClients[a].status = "offline")

\* C33: a registry entry is never removed: an agentId that is in the
\* registry is in it after every step, whichever of connect, heartbeat,
\* metrics, disconnect, sweep and StatusEvent handling the step is.
C33_RegistryOnlyGrows ==
    [][DOMAIN connectedClients \subseteq DOMAIN connectedClients']_vars

\* An agent without a session is still in the registry, offline, after a
\* sweep cycle has run.
C33_Witness ==
    \E a \in Agents :
        /\ a \in DOMAIN connectedClients
        /\ connectedClients[a].status = "offline"
        /\ sessions[a] = 0
        /\ out.op = "sweep"

\* C35: the status of every registry entry is online or offline in every
\* reachable state, also after a StatusEvent that carries the status idle
\* has been received.
C35_StatusOnlineOrOffline ==
    \A a \in DOMAIN connectedClients :
        connectedClients[a].status \in {"online", "offline"}

\* A StatusEvent with status idle has just been handled for an agent.
C35_Witness ==
    \E a \in Agents :
        /\ out.op = "receive"
        /\ out.agent = a
        /\ "idle" \in newest[a].statuses
        /\ a \in DOMAIN connectedClients
        /\ connectedClients[a].status = "offline"

\* C34: when a sweep cycle finds in the durable store an agent that has no
\* registry entry and was last seen longer ago than the offline threshold,
\* the registry holds an offline entry for that agent after the cycle.
C34_SweepDiscoveryRegisters ==
    [][\A a \in Agents :
          (/\ sweepDue /\ ~sweepDue' /\ out'.op = "sweep"
           /\ a \in DOMAIN database
           /\ a \notin DOMAIN connectedClients
           /\ now - database[a].last_seen > OFFLINE_THRESHOLD)
          => (/\ a \in DOMAIN connectedClients'
              /\ connectedClients'[a].status = "offline")]_vars

\* C36 (first part): after the handshake of an agent with a non-empty
\* agentId the agent is online in the registry and the handlers of its
\* messages are attached to the session.
C36_RegisteredAndAttached ==
    (out.op = "connect" /\ out.agent \in Agents) =>
        /\ out.attached
        /\ out.agent \in DOMAIN connectedClients
        /\ connectedClients[out.agent].status = "online"

\* C36: every handshake that carries a non-empty agentId leaves the agent
\* registered online with its handlers attached and publishes one online
\* StatusEvent, also without metadata, with a record of the agent in the
\* store, and when the lookup in the store fails.
C36_HandshakeRegisters ==
    /\ C36_RegisteredAndAttached
    /\ (out.op = "connect" /\ out.agent \in Agents) =>
           /\ Len(out.pub) = 1
           /\ out.pub[1].channel = "connection:status"
           /\ out.pub[1].data.status = "online"

\* C37: with two server processes on one relay bus, the sweep of the
\* process that does not hold an agent's session raises no connection_lost
\* alert for the agent while the agent heartbeats to the other process at
\* least once a minute (and its online StatusEvent has been delivered).
C37_NoAlertForRemoteAgent ==
    \A a \in Agents :
        (/\ remote[a].session
         /\ bus = <<>>
         /\ remote[a].regular
         /\ now - remote[a].beat <= CHECK_INTERVAL)
        => ~(out.op = "sweep" /\ a \in Range(out.alerted))

\* C38: after the agent's disconnect() has returned, the reconnecting flag
\* is false and no reconnect timer is pending.
C38_DisconnectLeavesNothingPending ==
    cout.op = "disconnect" => (~isReconnecting /\ ~timerPending)

\* C39: handling a duplicate StatusEvent causes no notification: an offline
\* StatusEvent for an agent that is already offline in the registry, or an
\* online one for an agent that is already online, sends nothing to the
\* notification sink and writes nothing to the durable store.
C39_DuplicateStatusEventSilent ==
    [][(/\ bus # <<>>
        /\ bus' = Tail(bus)
        /\ out'.op = "deliver"
        /\ Head(bus).clientId \in DOMAIN connectedClients
        /\ connectedClients[Head(bus).clientId].status = Head(bus).status)
       => (out'.sink = <<>> /\ out'.dbw = <<>>)]_vars

=============================================================================
